---- MODULE Spec2Model ----
(***************************************************************************)
(* The soundtrack-to-YouTube linking pipeline of imdb4m and its            *)
(* quota-aware batch runner.                                               *)
(*                                                                         *)
(*   linker/music_linker.py        MusicLinker.find_match (3 search rounds)*)
(*   src/music_linker.py           the older MusicLinker.find_match        *)
(*   linker/youtube_client.py      search_videos, enrich_videos_with_...   *)
(*   linker/gemini_matcher.py      GeminiMatcher.find_best_match           *)
(*   extract_soundtrack_links.py   process_movie, main                     *)
(*                                                                         *)
(* Python's None is the empty sequence, a present value x is <<x>>.        *)
(* Confidences and delays are counted in tenths (0.3 is 3, 1.0 is 10).     *)
(* Python list positions are 0-based (idx, start_index, resume_index);     *)
(* position i of a Python list is element i + 1 of the TLA+ sequence.      *)
(***************************************************************************)
EXTENDS Integers, Sequences, FiniteSets, TLC

VARIABLES
    fm,                 \* the find_match invocation in progress (MusicLinker)
    pc,                 \* position of main / process_movie
    args,               \* parsed command line (skip_existing, use_comments, ...)
    movie,              \* 1-based position of movie_folder in movie_folders
    folder,             \* what the dataset holds for movie_folder
    start_index,        \* main: start_index
    partial_results,    \* main: partial_results
    current_key_index,  \* main: current_key_index
    linker,             \* index of the key the current MusicLinker was built with
    movies_processed,   \* main: movies_processed
    quota_exceeded,     \* main: quota_exceeded
    interrupted,        \* main: KeyboardInterrupt was caught
    tracks,             \* process_movie: tracks
    results,            \* process_movie: results
    idx,                \* process_movie: idx
    qe,                 \* the QuotaExceededException in flight
    persisted,          \* movies whose output file this run has written
    output,             \* what the latest save_results_to_json wrote
    ret,                \* what the latest process_movie call returned
    report,             \* the counts logged when all keys are exhausted
    exit_code,          \* the status the process exited with
    lastCall,           \* the latest find_match call made for the current movie
    fbm,                \* the latest find_best_match call (GeminiMatcher)
    seq,                \* the find_matches_sequential invocation (MusicLinker)
    batch,              \* the find_matches_batch invocation (MusicLinker)
    probe               \* a MusicLinkResult and what is_successful() said of it

engineVars == <<fm>>
driverVars == <<fbm, seq, batch, probe>>
runnerVars == <<pc, args, movie, folder, start_index, partial_results,
                current_key_index, linker, movies_processed, quota_exceeded,
                interrupted, tracks, results, idx, qe, persisted, output, ret,
                report, exit_code, lastCall>>
vars == <<fm, pc, args, movie, folder, start_index, partial_results,
          current_key_index, linker, movies_processed, quota_exceeded,
          interrupted, tracks, results, idx, qe, persisted, output, ret,
          report, exit_code, lastCall, fbm, seq, batch, probe>>

(***************************************************************************)
(* Bounds of the model.                                                    *)
(***************************************************************************)
NumMovies == 2      \* len(movie_folders)
MaxTracks == 2      \* most tracks a soundtrack TTL holds
NumKeys == 2        \* len(yt_keys)
MaxCands == 2       \* max_search_results
MaxComments == 1    \* largest max_comments_per_video
MaxRecords == 2     \* longest list given to find_matches_sequential / _batch
MaxWorkers == 2     \* largest max_workers of find_matches_batch

None == <<>>
Some(x) == <<x>>

\* Python truthiness of an Optional[str]
Truthy(s) == s /= None /\ s[1] /= ""

RECURSIVE Join(_)
\* " ".join(parts)
Join(parts) ==
    IF parts = <<>> THEN ""
    ELSE IF Len(parts) = 1 THEN parts[1]
    ELSE parts[1] \o " " \o Join(Tail(parts))

\* 2 ** n
RECURSIVE Pow2(_)
Pow2(n) == IF n = 0 THEN 1 ELSE 2 * Pow2(n - 1)

(***************************************************************************)
(* linker/models.py, src/models.py                                         *)
(***************************************************************************)
\* a query that is the same in every round
ToSearchQueryNotBroadened(st, add_performer, add_movie) ==
    Join(<<st.title>>
         \o (IF Truthy(st.performer) THEN <<st.performer[1]>>
             ELSE IF Truthy(st.composer) THEN <<st.composer[1]>>
             ELSE <<>>)
         \o (IF Truthy(st.movie_title) THEN <<st.movie_title[1]>> ELSE <<>>))

\* SoundtrackMetadata.to_search_query of linker/models.py
ToSearchQuery(st, add_performer, add_movie) ==
    Join(<<st.title>>
         \o (IF add_performer
             THEN IF Truthy(st.performer) THEN <<st.performer[1]>>
                  ELSE IF Truthy(st.composer) THEN <<st.composer[1]>>
                  ELSE <<>>
             ELSE <<>>)
         \o (IF add_movie /\ Truthy(st.movie_title)
             THEN <<st.movie_title[1]>>
             ELSE <<>>))

\* SoundtrackMetadata.to_search_query of src/models.py
LegacyToSearchQuery(st) ==
    Join(<<st.title>>
         \o (IF Truthy(st.performer) THEN <<st.performer[1]>> ELSE <<>>)
         \o (IF Truthy(st.movie_title)
             THEN <<"from " \o st.movie_title[1]>>
             ELSE <<>>))

\* the query of the except branch: to_search_query() with its defaults
DefaultQuery(variant, st) ==
    IF variant = "linker" THEN ToSearchQuery(st, TRUE, TRUE)
    ELSE LegacyToSearchQuery(st)

\* MusicLinkResult(soundtrack=..., search_query=..., error=...)
ErrorResult(st, query, message) ==
    [soundtrack |-> st, best_match |-> None, match_score |-> None,
     candidates |-> <<>>, search_query |-> query, error |-> Some(message)]

\* a result that leaves the candidates out
MatchedResultWithoutCandidates(st, best, score, cands, query) ==
    [soundtrack |-> st, best_match |-> best, match_score |-> score,
     candidates |-> <<>>, search_query |-> query, error |-> None]

\* MusicLinkResult(soundtrack, best_match, match_score, candidates, search_query)
MatchedResult(st, best, score, cands, query) ==
    [soundtrack |-> st, best_match |-> best, match_score |-> score,
     candidates |-> cands, search_query |-> query, error |-> None]

\* an is_successful that looks at best_match only
IsSuccessfulIgnoringError(r) == r.best_match /= None

\* MusicLinkResult.is_successful
IsSuccessful(r) == r.best_match /= None /\ r.error = None

(***************************************************************************)
(* What the external services can answer.                                  *)
(***************************************************************************)
\* exceptions search_videos lets through (it re-raises every HttpError)
Exceptions ==
    { [type |-> "HttpError", status |-> 403, text |-> "quotaExceeded"],
      [type |-> "HttpError", status |-> 429,
       text |-> "Quota exceeded for quota metric"],
      [type |-> "HttpError", status |-> 500, text |-> "backendError"] }

\* str(e)
Str(e) == "<" \o e.type \o " " \o ToString(e.status) \o " " \o e.text \o ">"

\* search_videos: a list of at most max_results videos, or an exception
SearchOutcomes(max_results) ==
    { [exc |-> None, n |-> k] : k \in 0..max_results }
    \cup { [exc |-> Some(e), n |-> 0] : e \in Exceptions }

\* get_video_comments: the comments, [] on a 403, or another error raised
CommentOutcomes == {"ok", "http403", "error"}

\* confidences the LLM can report, in tenths
Confidences == {0 - 1, 0, 8, 10, 11}

\* generate_content and the text of its response; asked about n candidates the
\* LLM may name any of them, none (0) or one too many
LlmOutcomes(n) ==
    { [kind |-> k, index |-> 0, confidence |-> 0] :
        k \in {"api_error", "text_none", "invalid_json"} }
    \cup { [kind |-> "parsed", index |-> i, confidence |-> c] :
            i \in 0..(n + 1), c \in Confidences }

\* the list search_videos returns: _get_video_details, comments still empty
Videos(n) == [i \in 1..n |-> [video_id |-> i, comments |-> 0]]

(***************************************************************************)
(* linker/youtube_client.py                                                *)
(***************************************************************************)
\* an enrichment that gives up at the first failed comment fetch
EnrichAbortingOnFailure(videos, outs, max_comments_per_video) ==
    IF \E i \in 1..Len(videos) : outs[i] = "error"
    THEN <<>>
    ELSE [i \in 1..Len(videos) |->
            [videos[i] EXCEPT !.comments =
                IF outs[i] = "ok" THEN max_comments_per_video ELSE 0]]

\* enrich_videos_with_comments: one get_video_comments call per video; a video
\* whose call fails is kept as it is
EnrichVideosWithComments(videos, outs, max_comments_per_video) ==
    [i \in 1..Len(videos) |->
        IF outs[i] = "ok"
        THEN [videos[i] EXCEPT !.comments = max_comments_per_video]
        ELSE IF outs[i] = "http403"
        THEN [videos[i] EXCEPT !.comments = 0]
        ELSE videos[i]]

(***************************************************************************)
(* linker/gemini_matcher.py, src/gemini_matcher.py                         *)
(***************************************************************************)
\* confidence of the fallback MatchScore: 0.3
FallbackConfidence == 3

\* a field without bounds
AnyConfidence(c) == TRUE

\* Field(ge=0.0, le=1.0) of MatchResult.confidence and MatchScore.confidence
ValidConfidence(c) == 0 <= c /\ c <= 10

\* the fallback of find_best_match's except branch
FallbackScore(variant) ==
    [confidence |-> FallbackConfidence,
     reasoning |-> "Error in LLM matching",
     concerns |-> IF variant = "linker"
                  THEN <<"LLM analysis failed", "Error type">>
                  ELSE <<"LLM analysis failed">>]

\* the fallback of _parse_llm_response's except branch (src/gemini_matcher.py)
ParseFallbackScore ==
    [confidence |-> FallbackConfidence,
     reasoning |-> "Failed to parse LLM response",
     concerns |-> <<"Response parsing failed">>]

\* the answer taken as 0-indexed
BestMatchIndexZeroBased(index, n) ==
    IF index < 0 \/ index >= n THEN 0 ELSE index

\* best_match_index - 1, replaced by 0 when it is out of range
BestMatchIndex(index, n) ==
    IF index - 1 < 0 \/ index - 1 >= n THEN 0 ELSE index - 1

\* MatchScore(confidence=..., reasoning=..., ...) built from the LLM's answer
LlmScore(llm) ==
    [confidence |-> llm.confidence, reasoning |-> "llm", concerns |-> <<>>]

\* what find_best_match hands back: a pair, or an exception that escapes it
Returned(best, score) == [raised |-> None, best_match |-> best, match_score |-> score]
Escaped(message) == [raised |-> Some(message), best_match |-> None, match_score |-> None]

\* GeminiMatcher.find_best_match of linker/gemini_matcher.py
FindBestMatch(candidates, llm) ==
    IF candidates = <<>> THEN Returned(None, None)
    ELSE IF llm.kind = "api_error"
    THEN Returned(Some(candidates[1]), Some(FallbackScore("linker")))
    ELSE IF llm.kind = "text_none"
    \* response.text[:500] fails, and so does the except branch's own
    \* getattr(response, 'text', 'N/A')[:1000]
    THEN Escaped("'NoneType' object is not subscriptable")
    ELSE IF llm.kind = "invalid_json" \/ ~ValidConfidence(llm.confidence)
    THEN Returned(Some(candidates[1]), Some(FallbackScore("linker")))
    ELSE Returned(Some(candidates[BestMatchIndex(llm.index, Len(candidates)) + 1]),
                  Some(LlmScore(llm)))

\* GeminiMatcher.find_best_match and _parse_llm_response of src/gemini_matcher.py
LegacyFindBestMatch(candidates, llm) ==
    IF candidates = <<>> THEN Returned(None, None)
    ELSE IF llm.kind \in {"api_error", "text_none"}
    THEN Returned(Some(candidates[1]), Some(FallbackScore("src")))
    ELSE IF llm.kind = "invalid_json" \/ ~ValidConfidence(llm.confidence)
    THEN Returned(Some(candidates[1]), Some(ParseFallbackScore))
    ELSE Returned(Some(candidates[BestMatchIndex(llm.index, Len(candidates)) + 1]),
                  Some(LlmScore(llm)))

\* a matcher that asks the LLM about an empty list too
LlmCallsMadeAlways(candidates) == 1

\* calls of generate_content that find_best_match makes
LlmCallsMade(candidates) == IF candidates = <<>> THEN 0 ELSE 1

\* no find_best_match call made yet
NoMatcherCall ==
    [pc |-> "idle", variant |-> "linker", candidates |-> <<>>,
     llm |-> [kind |-> "api_error", index |-> 0, confidence |-> 0],
     calls |-> 0, got |-> Returned(None, None)]

\* find_best_match(soundtrack, candidates) called on the GeminiMatcher of
\* linker/ or of src/
FindBestMatchCall ==
    /\ pc = "matcher" /\ fbm.pc \in {"idle", "returned", "raised"}
    /\ \E variant \in {"linker", "src"}, n \in 0..MaxCands, comments \in {0, MaxComments} :
          fbm' = [NoMatcherCall EXCEPT
                    !.pc = "called", !.variant = variant,
                    !.candidates = [i \in 1..n |-> [video_id |-> i, comments |-> comments]]]
    /\ UNCHANGED <<fm, seq, batch, probe>>
    /\ UNCHANGED runnerVars

\* find_best_match runs to its end: it returns a pair or lets an exception out;
\* llm is what generate_content does when it is called
FindBestMatchEnd ==
    /\ fbm.pc = "called"
    /\ \E llm \in LlmOutcomes(Len(fbm.candidates)) :
          LET got == IF fbm.variant = "linker"
                     THEN FindBestMatch(fbm.candidates, llm)
                     ELSE LegacyFindBestMatch(fbm.candidates, llm)
          IN  fbm' = [fbm EXCEPT
                        !.pc = IF got.raised /= None THEN "raised" ELSE "returned",
                        !.llm = llm,
                        !.calls = LlmCallsMade(fbm.candidates),
                        !.got = got]
    /\ UNCHANGED <<fm, seq, batch, probe>>
    /\ UNCHANGED runnerVars

(***************************************************************************)
(* linker/music_linker.py, src/music_linker.py: MusicLinker.find_match     *)
(***************************************************************************)
\* retries = 3
Retries == 3

\* (2 ** attempt) + random.uniform(0, 1), in tenths: the least and the largest
\* delay the sum can be
BackoffDelay(attempt) == [lo |-> 10 * Pow2(attempt), hi |-> 10 * Pow2(attempt) + 10]

NoSoundtrack == [title |-> "", performer |-> None, composer |-> None, movie_title |-> None]

\* no find_match call in progress
Idle ==
    [pc |-> "idle", variant |-> "linker", soundtrack |-> NoSoundtrack,
     max_search_results |-> 0, use_comments |-> FALSE,
     max_comments_per_video |-> 0, attempt |-> 0,
     search_query |-> "", candidates |-> <<>>, searchLog |-> <<>>,
     sleepLog |-> <<>>, commentLog |-> <<>>, llmCalls |-> 0, thrown |-> None,
     result |-> None]

\* find_match(soundtrack) entered on a MusicLinker built with these settings
Entered(variant, st, max_search_results, use_comments, max_comments_per_video) ==
    [Idle EXCEPT !.pc = "search", !.variant = variant, !.soundtrack = st,
                 !.max_search_results = max_search_results,
                 !.use_comments = use_comments,
                 !.max_comments_per_video = max_comments_per_video]

\* return of find_match
Return(f, r) == [f EXCEPT !.pc = "done", !.result = Some(r)]

\* an exception with this str() is raised inside the try block of find_match
Thrown(f, message) == [f EXCEPT !.thrown = Some(message)]

\* a handler that puts a fixed text in place of str(e)
ExceptBranchFixedText(f, message) ==
    Return(f, ErrorResult(f.soundtrack, DefaultQuery(f.variant, f.soundtrack), "error"))

\* a handler that lets the exception leave find_match
ExceptBranchReraise(f, message) == [f EXCEPT !.pc = "raised"]

\* except Exception as e: a result with error=str(e)
ExceptBranch(f, message) ==
    Return(f, ErrorResult(f.soundtrack, DefaultQuery(f.variant, f.soundtrack), message))

\* the result of an empty search with another error text
NoVideosResultOtherText(f) ==
    ErrorResult(f.soundtrack, f.search_query, "No videos found")

\* if not candidates: return MusicLinkResult(..., error="No YouTube videos found")
NoVideosResult(f) ==
    ErrorResult(f.soundtrack, f.search_query, "No YouTube videos found")

\* after a non-empty search: comments are fetched only with use_comments
AfterSearch(f) == [f EXCEPT !.pc = IF f.use_comments THEN "enrich" ELSE "judge"]

\* one pass of the retry loop of linker/music_linker.py: the query, the search,
\* break on candidates, else the backoff sleep; after the last pass the
\* "No YouTube videos found" result
SearchRound(f, out) ==
    LET q == ToSearchQuery(f.soundtrack, f.attempt < 2, f.attempt < 1)
        called == [f EXCEPT !.search_query = q, !.searchLog = Append(@, q)]
        slept == [called EXCEPT !.sleepLog = Append(@, BackoffDelay(f.attempt))]
    IN  IF out.exc /= None
        THEN ExceptBranch(Thrown(called, Str(out.exc[1])), Str(out.exc[1]))
        ELSE IF out.n > 0 THEN AfterSearch([called EXCEPT !.candidates = Videos(out.n)])
        ELSE IF f.attempt + 1 < Retries THEN [slept EXCEPT !.attempt = @ + 1]
        ELSE Return(slept, NoVideosResult(slept))

\* the single search of src/music_linker.py
LegacySearch(f, out) ==
    LET q == LegacyToSearchQuery(f.soundtrack)
        called == [f EXCEPT !.search_query = q, !.searchLog = Append(@, q)]
    IN  IF out.exc /= None
        THEN ExceptBranch(Thrown(called, Str(out.exc[1])), Str(out.exc[1]))
        ELSE IF out.n > 0 THEN AfterSearch([called EXCEPT !.candidates = Videos(out.n)])
        ELSE Return(called, NoVideosResult(called))

\* an enrichment that lets the 403 of a comment fetch out as a quota error
EnrichRaisingOnForbidden(f, outs) ==
    LET e == [type |-> "HttpError", status |-> 403, text |-> "quotaExceeded"]
        fetched ==
            [f EXCEPT
               !.candidates = EnrichVideosWithComments(@, outs, f.max_comments_per_video),
               !.commentLog = [i \in 1..Len(f.candidates) |->
                                 [video_id |-> f.candidates[i].video_id,
                                  outcome |-> outs[i]]]]
    IN  IF \E i \in 1..Len(f.candidates) : outs[i] = "http403"
        THEN ExceptBranch(Thrown(fetched, Str(e)), Str(e))
        ELSE [fetched EXCEPT !.pc = "judge"]

\* candidates = self.youtube_client.enrich_videos_with_comments(...); commentLog
\* notes each get_video_comments call and what the comment API answered
Enrich(f, outs) ==
    [f EXCEPT !.candidates = EnrichVideosWithComments(@, outs, f.max_comments_per_video),
              !.commentLog = [i \in 1..Len(f.candidates) |->
                                [video_id |-> f.candidates[i].video_id,
                                 outcome |-> outs[i]]],
              !.pc = "judge"]

\* best_match, match_score = self.gemini_matcher.find_best_match(...) and the
\* result built from it
Judge(f, llm) ==
    LET got == IF f.variant = "linker" THEN FindBestMatch(f.candidates, llm)
               ELSE LegacyFindBestMatch(f.candidates, llm)
        asked == [f EXCEPT !.llmCalls = @ + LlmCallsMade(f.candidates)]
    IN  IF got.raised /= None
        THEN ExceptBranch(Thrown(asked, got.raised[1]), got.raised[1])
        ELSE Return(asked, MatchedResult(f.soundtrack, got.best_match, got.match_score,
                                         f.candidates, f.search_query))

FindMatchSearch ==
    /\ fm.pc = "search" /\ fm.variant = "linker"
    /\ \E out \in SearchOutcomes(fm.max_search_results) : fm' = SearchRound(fm, out)
    /\ UNCHANGED runnerVars
    /\ UNCHANGED driverVars

LegacyFindMatchSearch ==
    /\ fm.pc = "search" /\ fm.variant = "src"
    /\ \E out \in SearchOutcomes(fm.max_search_results) : fm' = LegacySearch(fm, out)
    /\ UNCHANGED runnerVars
    /\ UNCHANGED driverVars

FindMatchEnrich ==
    /\ fm.pc = "enrich"
    /\ \E outs \in [1..Len(fm.candidates) -> CommentOutcomes] : fm' = Enrich(fm, outs)
    /\ UNCHANGED runnerVars
    /\ UNCHANGED driverVars

FindMatchJudge ==
    /\ fm.pc = "judge"
    /\ \E llm \in LlmOutcomes(Len(fm.candidates)) : fm' = Judge(fm, llm)
    /\ UNCHANGED runnerVars
    /\ UNCHANGED driverVars

\* every MusicLinkResult a find_match call can come back with, whatever the
\* searches, the comment fetches and the LLM answer
RECURSIVE FindMatchResults(_)
FindMatchResults(f) ==
    IF f.pc = "done" THEN {f.result[1]}
    ELSE IF f.pc = "search"
    THEN UNION { FindMatchResults(IF f.variant = "linker" THEN SearchRound(f, out)
                                  ELSE LegacySearch(f, out)) :
                    out \in SearchOutcomes(f.max_search_results) }
    ELSE IF f.pc = "enrich"
    THEN UNION { FindMatchResults(Enrich(f, outs)) :
                    outs \in [1..Len(f.candidates) -> CommentOutcomes] }
    ELSE UNION { FindMatchResults(Judge(f, llm)) :
                    llm \in LlmOutcomes(Len(f.candidates)) }

(***************************************************************************)
(* linker/music_linker.py: MusicLinker.find_matches_sequential             *)
(***************************************************************************)
\* no find_matches_sequential invocation
NoSequence ==
    [pc |-> "idle", soundtracks |-> <<>>, use_comments |-> FALSE, i |-> 0,
     results |-> <<>>, sleeps |-> <<>>]

\* a delay after every record, the last included
DelayAfterEvery(i, n) == TRUE

\* if i < len(soundtracks) - 1: time.sleep(random.uniform(*delay_range))
DelayDue(i, n) == i < n - 1

\* what is kept of a MusicLinkResult in the list that is returned
Kept(res) ==
    [soundtrack |-> res.soundtrack, error |-> res.error,
     matched |-> res.best_match /= None]

(***************************************************************************)
(* linker/music_linker.py, src/music_linker.py: find_matches_batch         *)
(***************************************************************************)
\* no find_matches_batch invocation
NoBatch ==
    [pc |-> "idle", variant |-> "linker", soundtracks |-> <<>>, max_workers |-> 1,
     task |-> <<>>, outcome |-> <<>>, results |-> <<>>]

\* futures whose find_match a worker thread of the pool is running
Running(b) == Cardinality({i \in 1..Len(b.task) : b.task[i] = "running"})

\* an element of results; task notes the future it was collected from
BatchEntry(i, res) == [task |-> i, result |-> Kept(res)]

\* a collection that leaves failed results out
CollectedDroppingFailures(b, i) ==
    IF b.outcome[i][1].error /= None THEN b.results
    ELSE Append(b.results, BatchEntry(i, b.outcome[i][1]))

\* the body of the as_completed loop for future i: results.append(result),
\* then the log line, which reads result.match_score.confidence of a
\* successful result; if that raises, the except branch appends an error
\* result for the same soundtrack
Collected(b, i) ==
    LET res == b.outcome[i][1]
        st == b.soundtracks[i]
        appended == Append(b.results, BatchEntry(i, res))
    IN  IF IsSuccessful(res) /\ res.match_score = None
        THEN Append(appended,
                    BatchEntry(i, ErrorResult(st, DefaultQuery(b.variant, st),
                        "'NoneType' object has no attribute 'confidence'")))
        ELSE appended

(***************************************************************************)
(* linker/models.py, src/models.py: MusicLinkResult.is_successful          *)
(***************************************************************************)
\* no MusicLinkResult built yet
NoProbe ==
    [pc |-> "idle", result |-> ErrorResult(NoSoundtrack, "", ""), is_successful |-> None]

(***************************************************************************)
(* extract_soundtrack_links.py: the dataset and the command line           *)
(***************************************************************************)
\* the parsed arguments the runner reads: one search result per query, comments
\* used or not with --max-comments-per-video at its default 0, all tracks of a
\* movie (max_soundtracks_per_movie None, here 0) or all but one
ArgSets ==
    { a \in [skip_existing : BOOLEAN, max_search_results : {1},
             use_comments : BOOLEAN, max_comments_per_video : {0},
             max_soundtracks_per_movie : {0, MaxTracks - 1}] :
        \* the defaults, or one option given
        /\ ((a.skip_existing /\ a.use_comments) = FALSE)
        /\ ((a.skip_existing /\ a.max_soundtracks_per_movie /= 0) = FALSE)
        /\ ((a.use_comments /\ a.max_soundtracks_per_movie /= 0) = FALSE) }

\* a movie folder: whether its TTL files exist, how many titled schema:audio
\* nodes the soundtrack TTL holds, whether its output file is already there
Folders ==
    { [ttl |-> TRUE, n |-> k, output_exists |-> x] : k \in 0..MaxTracks, x \in BOOLEAN }
    \cup { [ttl |-> FALSE, n |-> 0, output_exists |-> FALSE] }

NoFolder == [ttl |-> FALSE, n |-> 0, output_exists |-> FALSE]

\* the SoundtrackMetadata of the t-th audio node of the soundtrack TTL
TrackRecord(t) ==
    [title |-> "Song " \o ToString(t),
     performer |-> IF t % 2 = 1 THEN Some("Performer") ELSE None,
     composer |-> Some("Composer"),
     movie_title |-> Some("Movie")]

(***************************************************************************)
(* linker/parser.py                                                        *)
(***************************************************************************)
\* SoundtrackParser.parse_soundtrack_ttl: the audio nodes are collected in a
\* set() of blank nodes and the list is built by iterating over that set.  A
\* blank node gets a fresh identifier on every parse of the file, so every call
\* may list the n tracks in another order.
ParseSoundtrackTtl(n) ==
    { order \in [1..n -> 1..n] : \A i, j \in 1..n : order[i] = order[j] => i = j }

(***************************************************************************)
(* extract_soundtrack_links.py: process_movie                              *)
(***************************************************************************)
\* tracks = tracks[:args.max_soundtracks_per_movie], when that is set
LimitTracks(parsed, limit) ==
    IF limit /= 0 /\ limit < Len(parsed) THEN SubSeq(parsed, 1, limit) ELSE parsed

\* 'quotaExceeded' in s or 'quota' in s.lower(), for the messages that occur
MentionsQuota(message) ==
    \E e \in Exceptions :
        /\ message = Str(e)
        /\ e.text \in {"quotaExceeded", "Quota exceeded for quota metric"}

\* a detection that takes every error for a quota error
QuotaDetectedOnAnyError(res) == Truthy(res.error)

\* if res.error and ('quotaExceeded' in res.error or 'quota' in res.error.lower())
QuotaDetected(res) == Truthy(res.error) /\ MentionsQuota(res.error[1])

\* a quota exception that loses the results made so far
QuotaExceededWithoutPartial(resume_index, partial) ==
    [resume_index |-> resume_index, partial_results |-> <<>>]

\* QuotaExceededException("...", resume_index=idx, partial_results=results)
QuotaExceededException(resume_index, partial) ==
    [resume_index |-> resume_index, partial_results |-> partial]

\* what the runner keeps of a MusicLinkResult: the track it is for, its error
\* and whether it has a best_match; idx notes the loop index it was made at
Recorded(i, t, res) ==
    [idx |-> i, track |-> t, error |-> res.error, matched |-> res.best_match /= None]

\* results.append(res)
AppendResult(rs, i, t, res) == Append(rs, Recorded(i, t, res))

\* a loop that stops one index early
LoopFinishedEarly(i, ts) == i >= Len(ts) - 1

\* range(start_index, len(tracks)) is used up
LoopFinished(i, ts) == i >= Len(ts)

\* successful_matches: the results with a best_match
SuccessfulMatches(rs) == Cardinality({i \in 1..Len(rs) : rs[i].matched})

\* the locals of process_movie are gone once it returns or raises
LocalsGone == tracks' = <<>> /\ results' = <<>> /\ idx' = 0

\* main, after process_movie returned r: movies_processed += 1; break
MovieFinished(r) ==
    /\ ret' = Some(r)
    /\ movies_processed' = movies_processed + 1
    /\ movie' = movie + 1
    /\ pc' = "for"

\* process_movie up to the track loop: skip an existing output, parse the TTL
\* (a missing file raises and is caught by the except Exception at the end),
\* return on no tracks, limit the tracks, seed results with existing_results
ProcessMovie ==
    /\ pc = "call"
    /\ IF \/ args.skip_existing /\ (folder.output_exists \/ movie \in persisted)
          \/ ~folder.ttl
          \/ folder.n = 0
       THEN /\ MovieFinished(<<0, 0>>)
            /\ UNCHANGED <<tracks, results, idx>>
       ELSE /\ \E parsed \in ParseSoundtrackTtl(folder.n) :
                  tracks' = LimitTracks(parsed, args.max_soundtracks_per_movie)
            /\ results' = partial_results
            /\ idx' = start_index
            /\ pc' = "loop"
            /\ UNCHANGED <<ret, movies_processed, movie>>
    /\ UNCHANGED <<fm, args, folder, start_index, partial_results, current_key_index,
                   linker, quota_exceeded, interrupted, qe, persisted, output, report,
                   exit_code, lastCall>>
    /\ UNCHANGED driverVars

\* for idx in range(start_index, len(tracks)): res = linker.find_match(track)
CallFindMatch ==
    /\ pc = "loop" /\ ~LoopFinished(idx, tracks)
    /\ fm' = Entered("linker", TrackRecord(tracks[idx + 1]), args.max_search_results,
                     args.use_comments, args.max_comments_per_video)
    /\ lastCall' = Some([idx |-> idx, key |-> linker, quota |-> FALSE])
    /\ pc' = "find_match"
    /\ UNCHANGED <<args, movie, folder, start_index, partial_results, current_key_index,
                   linker, movies_processed, quota_exceeded, interrupted, tracks, results,
                   idx, qe, persisted, output, ret, report, exit_code>>
    /\ UNCHANGED driverVars

\* the rest of the loop body: a result whose error mentions quota is not
\* appended and QuotaExceededException is raised; any other result is appended.
\* find_match catches every Exception, so the except HttpError branch of the
\* loop body is never entered.
TrackResult ==
    /\ pc = "find_match" /\ fm.pc = "done"
    /\ LET res == fm.result[1]
       IN  IF QuotaDetected(res)
           THEN /\ qe' = Some(QuotaExceededException(idx, results))
                /\ lastCall' = Some([lastCall[1] EXCEPT !.quota = TRUE])
                /\ LocalsGone
                /\ pc' = "except"
           ELSE /\ results' = AppendResult(results, idx, tracks[idx + 1], res)
                /\ idx' = idx + 1
                /\ pc' = "loop"
                /\ UNCHANGED <<qe, lastCall, tracks>>
    /\ fm' = Idle
    /\ UNCHANGED <<args, movie, folder, start_index, partial_results, current_key_index,
                   linker, movies_processed, quota_exceeded, interrupted, persisted,
                   output, ret, report, exit_code>>
    /\ UNCHANGED driverVars

\* after the loop: count the matches, save_results_to_json(results, output_path),
\* return (len(tracks), successful_matches)
SaveResults ==
    /\ pc = "loop" /\ LoopFinished(idx, tracks)
    /\ persisted' = persisted \cup {movie}
    /\ output' = Some([movie |-> movie, results |-> results, tracks |-> tracks])
    /\ MovieFinished(<<Len(tracks), SuccessfulMatches(results)>>)
    /\ LocalsGone
    /\ UNCHANGED <<fm, args, folder, start_index, partial_results, current_key_index,
                   linker, quota_exceeded, interrupted, qe, report, exit_code, lastCall>>
    /\ UNCHANGED driverVars

(***************************************************************************)
(* extract_soundtrack_links.py: main                                       *)
(***************************************************************************)
\* sys.exit(2)
ExitQuota == 2

\* an exit that does not look at quota_exceeded
ExitStatusAlwaysZero(quota) == 0

\* if quota_exceeded: sys.exit(2); else the interpreter ends with status 0
ExitStatus(quota) == IF quota THEN ExitQuota ELSE 0

\* a resumption that starts the movie over
ResumeFromStart(q) == 0

\* start_index = qe.resume_index or 0
ResumeIndex(q) == q.resume_index

\* partial_results = qe.partial_results
ResumePartial(q) == q.partial_results

\* for movie_folder in movie_folders: start_index = 0; partial_results = []
NextMovie ==
    /\ pc = "for" /\ movie <= NumMovies
    \* an output file that is already there is looked at only with --skip-existing
    /\ folder' \in { f \in Folders : f.output_exists => args.skip_existing }
    /\ start_index' = 0
    /\ partial_results' = <<>>
    /\ lastCall' = None
    /\ output' = None
    /\ ret' = None
    /\ pc' = "call"
    /\ UNCHANGED <<fm, args, movie, current_key_index, linker, movies_processed,
                   quota_exceeded, interrupted, tracks, results, idx, qe, persisted,
                   report, exit_code>>
    /\ UNCHANGED driverVars

\* the for loop ends: every movie was handed to process_movie
AllMoviesDone ==
    /\ pc = "for" /\ movie > NumMovies
    /\ pc' = "summary"
    /\ UNCHANGED <<fm, args, movie, folder, start_index, partial_results,
                   current_key_index, linker, movies_processed, quota_exceeded,
                   interrupted, tracks, results, idx, qe, persisted, output, ret,
                   report, exit_code, lastCall>>
    /\ UNCHANGED driverVars

\* a handler that, with a key left, builds the linker from the first key again
RotateKeyReusingFirst ==
    /\ pc = "except" /\ current_key_index + 1 < NumKeys
    /\ current_key_index' = current_key_index + 1
    /\ linker' = 0
    /\ start_index' = ResumeIndex(qe[1])
    /\ partial_results' = ResumePartial(qe[1])
    /\ qe' = None
    /\ pc' = "call"
    /\ UNCHANGED <<fm, args, movie, folder, movies_processed, quota_exceeded,
                   interrupted, tracks, results, idx, persisted, output, ret, report,
                   exit_code, lastCall>>
    /\ UNCHANGED driverVars

\* a handler that builds a new linker without moving on in the key list
RotateKeyNotAdvancing ==
    /\ pc = "except" /\ current_key_index + 1 < NumKeys
    /\ linker' = current_key_index
    /\ start_index' = ResumeIndex(qe[1])
    /\ partial_results' = ResumePartial(qe[1])
    /\ qe' = None
    /\ pc' = "call"
    /\ UNCHANGED <<fm, args, movie, folder, movies_processed, quota_exceeded,
                   interrupted, tracks, results, idx, persisted, output, ret, report,
                   exit_code, lastCall, current_key_index>>
    /\ UNCHANGED driverVars

\* except QuotaExceededException with a key left: build_linker(next key) and
\* resume the same movie
RotateKey ==
    /\ pc = "except" /\ current_key_index + 1 < NumKeys
    /\ current_key_index' = current_key_index + 1
    /\ linker' = current_key_index + 1
    /\ start_index' = ResumeIndex(qe[1])
    /\ partial_results' = ResumePartial(qe[1])
    /\ qe' = None
    /\ pc' = "call"
    /\ UNCHANGED <<fm, args, movie, folder, movies_processed, quota_exceeded,
                   interrupted, tracks, results, idx, persisted, output, ret, report,
                   exit_code, lastCall>>
    /\ UNCHANGED driverVars

\* a handler that, with no key left, goes on with the next movie
AllKeysExhaustedGoesOn ==
    /\ pc = "except" /\ current_key_index + 1 >= NumKeys
    /\ current_key_index' = current_key_index + 1
    /\ quota_exceeded' = TRUE
    /\ report' = Some([processed |-> movies_processed,
                       remaining |-> NumMovies - movies_processed])
    /\ qe' = None
    /\ movie' = movie + 1
    /\ pc' = "for"
    /\ UNCHANGED <<fm, args, folder, start_index, partial_results, linker,
                   movies_processed, interrupted, tracks, results, idx, persisted,
                   output, ret, exit_code, lastCall>>
    /\ UNCHANGED driverVars

\* except QuotaExceededException with no key left: log the counts, set
\* quota_exceeded and leave both loops
AllKeysExhausted ==
    /\ pc = "except" /\ current_key_index + 1 >= NumKeys
    /\ current_key_index' = current_key_index + 1
    /\ quota_exceeded' = TRUE
    /\ report' = Some([processed |-> movies_processed,
                       remaining |-> NumMovies - movies_processed])
    /\ qe' = None
    /\ pc' = "summary"
    /\ UNCHANGED <<fm, args, movie, folder, start_index, partial_results, linker,
                   movies_processed, interrupted, tracks, results, idx, persisted,
                   output, ret, exit_code, lastCall>>
    /\ UNCHANGED driverVars

\* except KeyboardInterrupt around the movie loop
Interrupt ==
    /\ pc \in {"for", "call", "loop", "find_match", "except"}
    /\ interrupted' = TRUE
    /\ fm' = Idle
    /\ qe' = None
    /\ LocalsGone
    /\ pc' = "summary"
    /\ UNCHANGED <<args, movie, folder, start_index, partial_results, current_key_index,
                   linker, movies_processed, quota_exceeded, persisted, output, ret,
                   report, exit_code, lastCall>>
    /\ UNCHANGED driverVars

\* the final summary; sys.exit(2) if quota_exceeded, else the process ends with 0
Exit ==
    /\ pc = "summary"
    /\ exit_code' = Some(ExitStatus(quota_exceeded))
    /\ pc' = "exited"
    /\ UNCHANGED <<fm, args, movie, folder, start_index, partial_results,
                   current_key_index, linker, movies_processed, quota_exceeded,
                   interrupted, tracks, results, idx, qe, persisted, output, ret,
                   report, lastCall>>
    /\ UNCHANGED driverVars

RunnerStart(a, at) ==
    /\ fm = Idle
    /\ pc = at
    /\ args = a
    /\ movie = 1
    /\ folder = NoFolder
    /\ start_index = 0
    /\ partial_results = <<>>
    /\ current_key_index = 0
    /\ linker = 0
    /\ movies_processed = 0
    /\ quota_exceeded = FALSE
    /\ interrupted = FALSE
    /\ tracks = <<>>
    /\ results = <<>>
    /\ idx = 0
    /\ qe = None
    /\ persisted = {}
    /\ output = None
    /\ ret = None
    /\ report = None
    /\ exit_code = None
    /\ lastCall = None
    /\ fbm = NoMatcherCall
    /\ seq = NoSequence
    /\ batch = NoBatch
    /\ probe = NoProbe

\* main up to the movie loop: the arguments are parsed, the first key builds
\* the linker
Init == \E a \in ArgSets : RunnerStart(a, "for")

Next ==
    \/ NextMovie
    \/ ProcessMovie
    \/ CallFindMatch
    \/ FindMatchSearch
    \/ FindMatchEnrich
    \/ FindMatchJudge
    \/ TrackResult
    \/ SaveResults
    \/ RotateKey
    \/ AllKeysExhausted
    \/ AllMoviesDone
    \/ Interrupt
    \/ Exit

Spec == Init /\ [][Next]_vars

\* the runner is one thread that the interpreter keeps running: whenever a
\* step of it is possible, a step is taken (every call it makes returns)
SpecLive == Spec /\ WF_vars(Next)

(***************************************************************************)
(* the runner started with --use-comments --max-comments-per-video N       *)
(***************************************************************************)
CommentArgs ==
    [skip_existing |-> FALSE, max_search_results |-> 1, use_comments |-> TRUE,
     max_comments_per_video |-> MaxComments, max_soundtracks_per_movie |-> 0]

CommentsInit == RunnerStart(CommentArgs, "for")

SpecComments == CommentsInit /\ [][Next]_vars

(***************************************************************************)
(* find_match on its own: one record at a time, either MusicLinker          *)
(***************************************************************************)
SoundtrackRecords ==
    [title : {"My Heart Will Go On"},
     performer : {None, Some(""), Some("Celine Dion")},
     composer : {None, Some("James Horner")},
     movie_title : {None, Some("Titanic")}]

DefaultArgs ==
    [skip_existing |-> FALSE, max_search_results |-> MaxCands, use_comments |-> FALSE,
     max_comments_per_video |-> MaxComments, max_soundtracks_per_movie |-> 0]

EngineInit == RunnerStart(DefaultArgs, "engine")

\* linker.find_match(soundtrack) called by a driver
EngineCall ==
    /\ pc = "engine" /\ fm.pc \in {"idle", "done"}
    /\ \E variant \in {"linker", "src"}, st \in SoundtrackRecords,
          use_comments \in BOOLEAN, max_comments \in 0..MaxComments :
          fm' = Entered(variant, st, MaxCands, use_comments, max_comments)
    /\ UNCHANGED runnerVars
    /\ UNCHANGED driverVars

NextEngine ==
    \/ EngineCall
    \/ FindMatchSearch
    \/ LegacyFindMatchSearch
    \/ FindMatchEnrich
    \/ FindMatchJudge

SpecEngine == EngineInit /\ [][NextEngine]_vars

(***************************************************************************)
(* find_best_match on its own, either GeminiMatcher                        *)
(***************************************************************************)
MatcherInit == RunnerStart(DefaultArgs, "matcher")

NextMatcher ==
    \/ FindBestMatchCall
    \/ FindBestMatchEnd

SpecMatcher == MatcherInit /\ [][NextMatcher]_vars

(***************************************************************************)
(* find_matches_sequential on a MusicLinker of linker/                     *)
(***************************************************************************)
\* the soundtracks a list handed to find_matches_sequential is made of
SequenceRecords ==
    { [title |-> "My Heart Will Go On", performer |-> Some("Celine Dion"),
       composer |-> None, movie_title |-> Some("Titanic")],
      [title |-> "Nearer My God to Thee", performer |-> None,
       composer |-> None, movie_title |-> Some("Titanic")] }

SequentialInit == RunnerStart(DefaultArgs, "sequential")

\* find_matches_sequential(soundtracks) is entered on a linker built with or
\* without use_comments: results = []
FindMatchesSequential ==
    /\ pc = "sequential" /\ seq.pc = "idle"
    /\ \E n \in 0..MaxRecords, use_comments \in BOOLEAN :
          \E sts \in [1..n -> SequenceRecords] :
              seq' = [NoSequence EXCEPT !.pc = "loop", !.soundtracks = sts,
                                        !.use_comments = use_comments]
    /\ UNCHANGED <<fm, fbm, batch, probe>>
    /\ UNCHANGED runnerVars

\* for i, soundtrack in enumerate(soundtracks): result = self.find_match(soundtrack)
SequentialCall ==
    /\ seq.pc = "loop" /\ seq.i < Len(seq.soundtracks)
    /\ fm' = Entered("linker", seq.soundtracks[seq.i + 1], 1, seq.use_comments, 0)
    /\ seq' = [seq EXCEPT !.pc = "find_match"]
    /\ UNCHANGED <<fbm, batch, probe>>
    /\ UNCHANGED runnerVars

\* results.append(result) and the delay before the next record.  find_match
\* catches every Exception, so the except branch of the loop body, which
\* appends a result with error=str(e), is never entered.
SequentialResult ==
    /\ seq.pc = "find_match" /\ fm.pc = "done"
    /\ seq' = [seq EXCEPT
                 !.results = Append(@, Kept(fm.result[1])),
                 !.sleeps = IF DelayDue(seq.i, Len(seq.soundtracks))
                            THEN Append(@, seq.i) ELSE @,
                 !.i = @ + 1,
                 !.pc = "loop"]
    /\ fm' = Idle
    /\ UNCHANGED <<fbm, batch, probe>>
    /\ UNCHANGED runnerVars

\* return results
SequentialReturn ==
    /\ seq.pc = "loop" /\ seq.i >= Len(seq.soundtracks)
    /\ seq' = [seq EXCEPT !.pc = "returned"]
    /\ UNCHANGED <<fm, fbm, batch, probe>>
    /\ UNCHANGED runnerVars

NextSequential ==
    \/ FindMatchesSequential
    \/ SequentialCall
    \/ FindMatchSearch
    \/ FindMatchEnrich
    \/ FindMatchJudge
    \/ SequentialResult
    \/ SequentialReturn

SpecSequential == SequentialInit /\ [][NextSequential]_vars

(***************************************************************************)
(* MusicLinkResult.is_successful on its own                                *)
(***************************************************************************)
\* the MusicLinkResult objects the model can hold: any combination of the
\* Optional fields, "" among the error texts
LinkResults ==
    [soundtrack : SoundtrackRecords,
     best_match : {None} \cup {Some(v) : v \in {Videos(MaxCands)[i] : i \in 1..MaxCands}},
     match_score : {None, Some(FallbackScore("linker")), Some(ParseFallbackScore)},
     candidates : {Videos(n) : n \in 0..MaxCands},
     search_query : {"My Heart Will Go On"},
     error : {None, Some(""), Some("No YouTube videos found")}]

\* MusicLinkResult(...)
BuildResult ==
    /\ pc = "models" /\ probe.pc \in {"idle", "asked"}
    /\ \E r \in LinkResults : probe' = [NoProbe EXCEPT !.pc = "built", !.result = r]
    /\ UNCHANGED <<fm, fbm, seq, batch>>
    /\ UNCHANGED runnerVars

\* result.is_successful()
IsSuccessfulCall ==
    /\ probe.pc = "built"
    /\ probe' = [probe EXCEPT !.pc = "asked",
                              !.is_successful = Some(IsSuccessful(probe.result))]
    /\ UNCHANGED <<fm, fbm, seq, batch>>
    /\ UNCHANGED runnerVars

SuccessInit == RunnerStart(DefaultArgs, "models")

NextSuccess ==
    \/ BuildResult
    \/ IsSuccessfulCall

SpecSuccess == SuccessInit /\ [][NextSuccess]_vars

(***************************************************************************)
(* find_matches_batch on either MusicLinker                                *)
(***************************************************************************)
BatchInit == RunnerStart(DefaultArgs, "batch")

\* find_matches_batch(soundtracks, max_workers): results = [], the pool is
\* made and every find_match is submitted
FindMatchesBatch ==
    /\ pc = "batch" /\ batch.pc = "idle"
    /\ \E variant \in {"linker", "src"}, n \in 0..MaxRecords,
          max_workers \in 1..MaxWorkers :
          \E sts \in [1..n -> SequenceRecords] :
              batch' = [NoBatch EXCEPT
                          !.pc = "collect", !.variant = variant,
                          !.soundtracks = sts, !.max_workers = max_workers,
                          !.task = [i \in 1..n |-> "queued"],
                          !.outcome = [i \in 1..n |-> None]]
    /\ UNCHANGED <<fm, fbm, seq, probe>>
    /\ UNCHANGED runnerVars

\* an idle worker thread takes the oldest work item of the pool's queue
WorkerStart ==
    /\ batch.pc = "collect" /\ Running(batch) < batch.max_workers
    /\ \E i \in 1..Len(batch.task) :
          /\ batch.task[i] = "queued"
          /\ \A j \in 1..(i - 1) : batch.task[j] /= "queued"
          /\ batch' = [batch EXCEPT !.task[i] = "running"]
    /\ UNCHANGED <<fm, fbm, seq, probe>>
    /\ UNCHANGED runnerVars

\* a worker thread's self.find_match(soundtrack) returns; the future is done
WorkerFinish ==
    /\ batch.pc = "collect"
    /\ \E i \in 1..Len(batch.task) :
          /\ batch.task[i] = "running"
          /\ \E r \in FindMatchResults(Entered(batch.variant, batch.soundtracks[i],
                                                1, FALSE, 0)) :
                batch' = [batch EXCEPT !.task[i] = "finished", !.outcome[i] = Some(r)]
    /\ UNCHANGED <<fm, fbm, seq, probe>>
    /\ UNCHANGED runnerVars

\* for future in as_completed(future_to_soundtrack): any future that is done
\* and was not yet handed out
Collect ==
    /\ batch.pc = "collect"
    /\ \E i \in 1..Len(batch.task) :
          /\ batch.task[i] = "finished"
          /\ batch' = [batch EXCEPT !.task[i] = "collected",
                                    !.results = Collected(batch, i)]
    /\ UNCHANGED <<fm, fbm, seq, probe>>
    /\ UNCHANGED runnerVars

\* as_completed is used up, the pool is shut down: return results
BatchReturn ==
    /\ batch.pc = "collect"
    /\ \A i \in 1..Len(batch.task) : batch.task[i] = "collected"
    /\ batch' = [batch EXCEPT !.pc = "returned"]
    /\ UNCHANGED <<fm, fbm, seq, probe>>
    /\ UNCHANGED runnerVars

NextBatch ==
    \/ FindMatchesBatch
    \/ WorkerStart
    \/ WorkerFinish
    \/ Collect
    \/ BatchReturn

SpecBatch == BatchInit /\ [][NextBatch]_vars

(***************************************************************************)
(* Properties                                                              *)
(***************************************************************************)
\* the tracks the entries of a result list are for
TracksOf(rs) == {rs[i].track : i \in 1..Len(rs)}

\* every loop index up to the length of the list has its result, in order
IndexedInOrder(rs) == \A i \in 1..Len(rs) : rs[i].idx = i - 1

\* the three queries of the retry loop, in the order of the rounds
RoundQueries(st) ==
    <<ToSearchQuery(st, TRUE, TRUE), ToSearchQuery(st, TRUE, FALSE),
      ToSearchQuery(st, FALSE, FALSE)>>

\* C1: the result set persisted for a movie has one entry for each track of
\* the movie: as many entries as the movie has tracks, no track missing and
\* no track twice, also when the movie was resumed after a quota exception.
C1_OneResultPerTrack ==
    output /= None =>
        /\ Len(output[1].results) = Len(output[1].tracks)
        /\ TracksOf(output[1].results) = {output[1].tracks[i] : i \in 1..Len(output[1].tracks)}
        /\ \A i, j \in 1..Len(output[1].results) :
              output[1].results[i].track = output[1].results[j].track => i = j

C3_QuotaExceptionCarriesResumePoint ==
    qe /= None =>
        /\ lastCall /= None /\ lastCall[1].quota
        /\ qe[1].resume_index = lastCall[1].idx
        /\ qe[1].resume_index = Len(qe[1].partial_results)
        /\ IndexedInOrder(qe[1].partial_results)
        /\ \A i \in 1..Len(qe[1].partial_results) :
              ~QuotaDetected(qe[1].partial_results[i])

\* C3 witness: a quota exception raised at the second track or later
C3_Witness == qe /= None /\ qe[1].resume_index >= 1 /\ pc = "except"

\* C4, as claimed: a quota error of the search provider is never turned into
\* the error of a result that find_match returns.
C4_QuotaNotConvertedIntoError ==
    ~(fm.pc = "done" /\ fm.thrown /= None /\ QuotaDetected(fm.result[1]))

\* C4, amended: find_match catches the quota error like any other exception
\* and returns a result whose error is its message; process_movie recognises
\* the quota text in that error, does not append the result and raises the
\* QuotaExceededException that reaches main.
C4_QuotaSwallowedThenEscalated ==
    /\ [](fm.pc = "done" /\ fm.thrown /= None =>
            fm.result /= None /\ fm.result[1].error = fm.thrown
            /\ fm.result[1].best_match = None)
    /\ [][ (pc = "find_match" /\ fm.pc = "done" /\ fm.thrown /= None
            /\ MentionsQuota(fm.thrown[1]) /\ ~interrupted') =>
              /\ pc' = "except"
              /\ qe' = Some([resume_index |-> idx, partial_results |-> results])
              /\ current_key_index' = current_key_index
         ]_vars

\* C4 witness: find_match has returned a result whose error is the quota
\* error the search raised
C4_Witness ==
    /\ pc = "find_match" /\ fm.pc = "done"
    /\ fm.thrown = Some("<HttpError 403 quotaExceeded>")
    /\ fm.result[1].error = fm.thrown

\* C5: find_match ends in a return of exactly one result whatever the search,
\* the comment fetches and the LLM do; an exception raised inside it yields a
\* result with error = its message and no best_match.
C5_FindMatchNeverRaises ==
    /\ fm.pc \in {"idle", "search", "enrich", "judge", "done"}
    /\ (fm.pc = "done") = (fm.result /= None)
    /\ fm.thrown /= None =>
          /\ fm.pc = "done"
          /\ fm.result[1].error = fm.thrown
          /\ fm.result[1].best_match = None
          /\ fm.result[1].match_score = None

\* C5 witness: the judge raised after candidates were found, in the engine of
\* linker/; find_match returned
C5_Witness ==
    /\ fm.pc = "done" /\ fm.variant = "linker"
    /\ fm.candidates /= <<>> /\ fm.llmCalls = 1
    /\ fm.thrown /= None /\ fm.result[1].error = fm.thrown

\* C6: once no key is left the runner has stopped: no find_match call is in
\* progress or made later, no further movie is started or persisted, and the
\* counts of processed and remaining movies have been reported.
C6_AllKeysExhaustedStops ==
    /\ [](quota_exceeded =>
            /\ pc \in {"summary", "exited"}
            /\ fm = Idle
            /\ movie <= NumMovies /\ movie \notin persisted
            /\ report = Some([processed |-> movies_processed,
                              remaining |-> NumMovies - movies_processed])
            /\ movies_processed = movie - 1)
    /\ [][ quota_exceeded =>
             /\ fm' = fm /\ movie' = movie /\ persisted' = persisted
             /\ movies_processed' = movies_processed /\ quota_exceeded'
         ]_vars
    /\ [][ (pc = "except" /\ current_key_index + 1 >= NumKeys /\ ~interrupted') =>
             quota_exceeded' /\ pc' = "summary"
         ]_vars

\* C6 witness: the keys ran out during the first movie and the process has
\* ended with the later movies untouched
C6_Witness ==
    /\ quota_exceeded /\ pc = "exited"
    /\ movie = 1 /\ NumMovies > 1
    /\ report = Some([processed |-> 0, remaining |-> NumMovies])

\* C7: the process ends with status 0 when all movies were completed and with
\* status 2 when the keys were exhausted before that.
C7_ExitStatus ==
    pc = "exited" =>
        /\ exit_code /= None
        /\ (movies_processed = NumMovies => exit_code = Some(0))
        /\ (quota_exceeded => exit_code = Some(2) /\ movies_processed < NumMovies)

\* C7 witness: exit with status 2 after one movie was completed
C7_Witness ==
    pc = "exited" /\ quota_exceeded /\ exit_code = Some(2) /\ movies_processed >= 1

\* C8: a movie's results are written only when its track loop has run to the
\* end, with a result for every loop index, and the runner then advances; the
\* movie being processed has no file, neither across a rotation, where the
\* results so far live in partial_results, nor when the keys run out.
C8_PersistOnlyWhenComplete ==
    /\ [](/\ persisted \subseteq 1..(movie - 1)
          /\ output /= None =>
                /\ output[1].movie \in persisted /\ movie = output[1].movie + 1
                /\ Len(output[1].results) = Len(output[1].tracks)
                /\ Len(output[1].results) >= 1
                /\ IndexedInOrder(output[1].results)
          /\ (pc = "call" /\ start_index > 0) =>
                Len(partial_results) = start_index /\ movie \notin persisted)
    /\ [][ /\ persisted' /= persisted =>
                /\ pc = "loop" /\ idx = Len(tracks) /\ Len(results) = Len(tracks)
                /\ persisted' = persisted \cup {movie}
                /\ output' = Some([movie |-> movie, results |-> results, tracks |-> tracks])
                /\ movie' = movie + 1
           /\ (pc = "loop" /\ pc' = "for") => movie \in persisted'
         ]_vars

\* C8 witness: a movie resumed after a rotation has been completed and written
C8_Witness ==
    /\ output /= None /\ current_key_index >= 1
    /\ Len(output[1].results) >= 2
    /\ lastCall /= None /\ lastCall[1].key >= 1

\* the errors of results that are no quota condition
NonQuotaErrors ==
    { Some("No YouTube videos found"),
      Some("<HttpError 500 backendError>"),
      Some("'NoneType' object is not subscriptable") }

\* C9: a result whose error is no quota condition is appended as the result
\* of its track and the loop goes on with the next index: no exception, no
\* rotation, the same movie.
C9_NonQuotaFailureIsRecorded ==
    [][ (pc = "find_match" /\ fm.pc = "done" /\ fm.result[1].error \in NonQuotaErrors
         /\ ~interrupted') =>
           /\ results' = Append(results, [idx |-> idx, track |-> tracks[idx + 1],
                                          error |-> fm.result[1].error,
                                          matched |-> FALSE])
           /\ idx' = idx + 1 /\ pc' = "loop" /\ qe' = None
           /\ current_key_index' = current_key_index /\ linker' = linker
           /\ movie' = movie /\ tracks' = tracks
      ]_vars

\* C9 witness: the first track's result carries a non-quota error and
\* find_match is running for the second track with the first key
C9_Witness ==
    /\ pc = "find_match" /\ idx = 1 /\ current_key_index = 0
    /\ Len(results) = 1 /\ results[1].error \in NonQuotaErrors

\* C10: when every search returns an empty list find_match makes exactly the
\* three searches of rounds 0, 1, 2, fetches no comments, does not call the
\* LLM, and returns a result without best_match and match_score whose
\* search_query is the title-only query of round 2.
C10_ThreeRoundsThenNoVideos ==
    (fm.pc = "done" /\ fm.result[1].error = Some("No YouTube videos found")) =>
        /\ fm.searchLog = RoundQueries(fm.soundtrack)
        /\ fm.commentLog = <<>> /\ fm.llmCalls = 0
        /\ fm.result[1].best_match = None /\ fm.result[1].match_score = None
        /\ fm.result[1].search_query = ToSearchQuery(fm.soundtrack, FALSE, FALSE)

\* every search of the call so far returned an empty list and find_match returned
AllRoundsEmpty ==
    fm.pc = "done" /\ fm.candidates = <<>> /\ fm.thrown = None

\* C11, as claimed: when all search rounds return empty the error of the
\* result is exactly "No videos found".
C11_ErrorIsNoVideosFound ==
    AllRoundsEmpty => fm.result[1].error = Some("No videos found")

\* C11, amended: when all search rounds return empty the error of the result
\* is exactly "No YouTube videos found", and it has no best_match and no
\* match_score.
C11_ErrorIsNoYouTubeVideosFound ==
    AllRoundsEmpty =>
        /\ fm.result[1].error = Some("No YouTube videos found")
        /\ fm.result[1].best_match = None /\ fm.result[1].match_score = None
        /\ fm.result[1].candidates = <<>>

\* C11 witness: three empty rounds in the engine of linker/
C11_Witness ==
    AllRoundsEmpty /\ fm.variant = "linker" /\ Len(fm.searchLog) = 3

\* performer, or composer when no performer is given
PerformerOrComposer(st) ==
    IF Truthy(st.performer) THEN <<st.performer[1]>>
    ELSE IF Truthy(st.composer) THEN <<st.composer[1]>>
    ELSE <<>>

\* the query of a round as the broadening describes it
BroadenedQuery(st, round) ==
    Join(<<st.title>>
         \o (IF round <= 1 THEN PerformerOrComposer(st) ELSE <<>>)
         \o (IF round = 0 /\ Truthy(st.movie_title) THEN <<st.movie_title[1]>> ELSE <<>>))

\* C12: the query of round 0 is title, performer (or composer) and movie
\* title, that of round 1 title and performer (or composer), that of round 2
\* the title alone.
C12_ProgressiveBroadening ==
    fm.variant = "linker" =>
        /\ Len(fm.searchLog) <= 3
        /\ \A i \in 1..Len(fm.searchLog) :
              fm.searchLog[i] = BroadenedQuery(fm.soundtrack, i - 1)

\* C12 witness: three rounds for a record without performer, with composer
\* and movie title: the three queries differ
C12_Witness ==
    /\ fm.variant = "linker" /\ Len(fm.searchLog) = 3
    /\ fm.soundtrack.performer = None /\ fm.soundtrack.composer /= None
    /\ fm.soundtrack.movie_title /= None
    /\ fm.searchLog = <<"My Heart Will Go On James Horner Titanic",
                        "My Heart Will Go On James Horner",
                        "My Heart Will Go On">>

\* C13: after the first non-empty round no further search is made (the
\* searches are those of rounds 0..attempt, one wait before each but the
\* first), the candidates kept are that round's videos in order, and the
\* search_query of the returned result is that round's query.
C13_StopsAtFirstNonEmptyRound ==
    (fm.variant = "linker" /\ fm.candidates /= <<>>) =>
        /\ Len(fm.searchLog) = fm.attempt + 1
        /\ Len(fm.sleepLog) = fm.attempt
        /\ fm.search_query = fm.searchLog[Len(fm.searchLog)]
        /\ \A i \in 1..Len(fm.candidates) : fm.candidates[i].video_id = i
        /\ fm.pc = "done" => fm.result[1].search_query = fm.search_query

\* C14: the i-th wait of a call is 2^(i-1) seconds plus a jitter of at most a
\* second, and every wait is followed by another search: outside a search
\* round there are fewer waits than searches.
C14_BackoffBetweenRoundsOnly ==
    fm.variant = "linker" =>
        /\ \A i \in 1..Len(fm.sleepLog) :
              /\ fm.sleepLog[i].lo = 10 * Pow2(i - 1)
              /\ fm.sleepLog[i].hi = fm.sleepLog[i].lo + 10
        /\ (fm.pc /= "search" /\ fm.searchLog /= <<>>) =>
              Len(fm.sleepLog) < Len(fm.searchLog)

\* C15: the enrichment step hands every candidate on to the judge, in the
\* order of the search, each either with its fetched comments or as it was,
\* and find_match goes on to the judge without an exception.
C15_EnrichmentKeepsEveryCandidate ==
    [][ (fm.pc = "enrich" /\ fm' /= fm) =>
          /\ fm'.pc = "judge" /\ fm'.thrown = None /\ fm'.result = None
          /\ Len(fm'.candidates) = Len(fm.candidates)
          /\ \A i \in 1..Len(fm.candidates) :
                /\ fm'.candidates[i].video_id = fm.candidates[i].video_id
                /\ fm'.candidates[i].comments \in {0, fm.max_comments_per_video}
          /\ Len(fm'.commentLog) = Len(fm.candidates)
      ]_vars

\* C15 witness: of two candidates the first is without comments after the
\* enrichment, the second has its comments, and both are before the judge
C15_Witness ==
    /\ fm.pc = "judge" /\ fm.use_comments /\ fm.max_comments_per_video >= 1
    /\ Len(fm.candidates) = 2 /\ Len(fm.commentLog) = 2
    /\ fm.candidates[1].comments = 0
    /\ fm.candidates[2].comments = fm.max_comments_per_video

\* C16: find_best_match with candidates never returns (None, None); without
\* candidates it returns (None, None) and does not call the LLM.
C16_NeverNoneForCandidates ==
    fbm.pc \in {"returned", "raised"} =>
        /\ (fbm.candidates /= <<>> /\ fbm.pc = "returned") =>
              fbm.got.best_match /= None /\ fbm.got.match_score /= None
        /\ fbm.candidates = <<>> =>
              /\ fbm.pc = "returned"
              /\ fbm.got.best_match = None /\ fbm.got.match_score = None
              /\ fbm.calls = 0

\* C16 witness: a call without candidates has returned
C16_Witness ==
    fbm.pc = "returned" /\ fbm.candidates = <<>> /\ fbm.got.best_match = None

\* the LLM answered and its answer was parsed and validated
ParsedAnswer ==
    /\ fbm.pc = "returned" /\ fbm.candidates /= <<>>
    /\ fbm.llm.kind = "parsed"
    /\ 0 <= fbm.llm.confidence /\ fbm.llm.confidence <= 10

\* C17: on a parsed answer with index k over n candidates find_best_match
\* returns candidates[k-1] for 1 <= k <= n and candidates[0] otherwise, with
\* the confidence and the reasoning of the LLM.
C17_IndexConvertedAndClamped ==
    ParsedAnswer =>
        LET k == fbm.llm.index
            n == Len(fbm.candidates)
        IN  /\ fbm.got.raised = None
            /\ fbm.got.best_match =
                  Some(fbm.candidates[IF 1 <= k /\ k <= n THEN k ELSE 1])
            /\ fbm.got.match_score[1].confidence = fbm.llm.confidence
            /\ fbm.got.match_score[1].reasoning = "llm"

\* C17 witness: the LLM named the candidate after the last of two and the
\* first candidate was returned
C17_Witness ==
    /\ ParsedAnswer /\ Len(fbm.candidates) = 2 /\ fbm.llm.index = 3
    /\ fbm.got.best_match = Some(fbm.candidates[1])

\* the LLM call failed or its response could not be parsed and validated
LlmFailure ==
    /\ fbm.pc \in {"returned", "raised"} /\ fbm.candidates /= <<>>
    /\ \/ fbm.llm.kind \in {"api_error", "text_none", "invalid_json"}
       \/ fbm.llm.confidence < 0 \/ fbm.llm.confidence > 10

\* C18: after any failure of the LLM call or of the parsing find_best_match
\* returns the first candidate with confidence 0.3, a reasoning that states
\* the failure and "LLM analysis failed" among the concerns; it raises nothing.
C18_FailureRecoveredInsideMatcher ==
    LlmFailure =>
        /\ fbm.pc = "returned" /\ fbm.got.raised = None
        /\ fbm.got.best_match = Some(fbm.candidates[1])
        /\ fbm.got.match_score /= None
        /\ fbm.got.match_score[1].confidence = 3
        /\ fbm.got.match_score[1].reasoning
              \in {"Error in LLM matching", "Failed to parse LLM response"}
        /\ \E i \in 1..Len(fbm.got.match_score[1].concerns) :
              fbm.got.match_score[1].concerns[i] = "LLM analysis failed"

\* C19: the confidence of a MatchScore that find_best_match returns is
\* between 0.0 and 1.0, whatever confidence the LLM reported.
C19_ConfidenceInUnitInterval ==
    (fbm.pc = "returned" /\ fbm.got.match_score /= None) =>
        /\ 0 <= fbm.got.match_score[1].confidence
        /\ fbm.got.match_score[1].confidence <= 10

\* C19 witness: the LLM reported 1.1 and the score returned has 0.3
C19_Witness ==
    /\ fbm.pc = "returned" /\ fbm.llm.kind = "parsed" /\ fbm.llm.confidence = 11
    /\ fbm.got.match_score /= None /\ fbm.got.match_score[1].confidence = 3

\* C20: find_matches_sequential handles the records one at a time in input
\* order: the k-th result is that of the k-th record, find_match runs for the
\* record after those, one delay follows every record but the last, and the
\* list returned has one result per record, failed ones included.
C20_SequentialOrderAndDelays ==
    LET n == Len(seq.soundtracks)
    IN  /\ Len(seq.results) = seq.i /\ seq.i <= n
        /\ \A k \in 1..Len(seq.results) :
              seq.results[k].soundtrack = seq.soundtracks[k]
        /\ Len(seq.sleeps) = (IF seq.i < n THEN seq.i ELSE IF n = 0 THEN 0 ELSE n - 1)
        /\ \A k \in 1..Len(seq.sleeps) : seq.sleeps[k] = k - 1
        /\ seq.pc = "find_match" =>
              /\ seq.i < n
              /\ fm.pc /= "idle" /\ fm.soundtrack = seq.soundtracks[seq.i + 1]
        /\ seq.pc /= "find_match" => fm.pc = "idle"
        /\ seq.pc = "returned" => Len(seq.results) = n

\* C20 witness: two records, the first of which failed, have been processed
\* and the list was returned after one delay
C20_Witness ==
    /\ seq.pc = "returned" /\ Len(seq.soundtracks) = 2
    /\ seq.soundtracks[1] /= seq.soundtracks[2]
    /\ seq.results[1].error /= None /\ seq.results[2].matched
    /\ seq.sleeps = <<0>>

\* process_movie is running with the linker the runner handed to it
LinkerInUse == pc \in {"call", "loop", "find_match"}

\* C22: current_key_index changes only in the handler of
\* QuotaExceededException of the runner loop and only by one step forward;
\* process_movie and find_match leave it and the linker alone, the linker
\* changes only there too, and while process_movie runs the linker is the one
\* built from yt_keys[current_key_index], so no earlier key is used again.
C22_KeyIndexOnlyAdvancedOnQuota ==
    [][ /\ current_key_index' /= current_key_index =>
              /\ pc = "except" /\ qe /= None
              /\ current_key_index' = current_key_index + 1
        /\ linker' /= linker =>
              /\ pc = "except" /\ qe /= None
              /\ linker' = current_key_index'
        /\ LinkerInUse' =>
              /\ linker' = current_key_index' /\ linker' < NumKeys
              /\ (lastCall' /= None /\ pc' = "find_match") =>
                    lastCall'[1].key = current_key_index'
      ]_vars

\* C22 witness: after one rotation find_match runs on the linker of the
\* second key
C22_Witness ==
    /\ pc = "find_match" /\ current_key_index = 1 /\ linker = 1
    /\ lastCall /= None /\ lastCall[1].key = 1 /\ fm.pc /= "idle"

\* C23: with max_comments_per_video = 0 find_match calls the comment API for
\* no candidate.
C23_ZeroMaxCommentsDisablesFetching ==
    fm.max_comments_per_video = 0 => fm.commentLog = <<>>

\* the LLM named one of the candidates and reported a confidence outside [0, 1]
ValidIndexBadConfidence ==
    /\ fbm.pc \in {"returned", "raised"} /\ fbm.llm.kind = "parsed"
    /\ fbm.llm.index \in 1..Len(fbm.candidates)
    /\ (fbm.llm.confidence < 0 \/ fbm.llm.confidence > 10)

\* C25: for an answer with a valid index and a confidence outside [0, 1]
\* find_best_match returns the candidate the LLM named, with the confidence
\* clamped to the nearer end of [0, 1].
C25_OutOfRangeConfidenceClamped ==
    ValidIndexBadConfidence =>
        /\ fbm.pc = "returned"
        /\ fbm.got.best_match = Some(fbm.candidates[fbm.llm.index])
        /\ fbm.got.match_score /= None
        /\ fbm.got.match_score[1].confidence =
              (IF fbm.llm.confidence < 0 THEN 0 ELSE 10)

\* C27: a result that find_match returns either has an error and no
\* best_match, no match_score and no candidates, or it has no error, a
\* match_score and a best_match that is one of its candidates; so for these
\* results is_successful() is the same as error being None.
C27_ResultShapes ==
    fm.pc = "done" =>
        LET r == fm.result[1]
        IN  /\ \/ /\ r.error /= None /\ r.best_match = None
                  /\ r.match_score = None /\ r.candidates = <<>>
               \/ /\ r.error = None /\ r.best_match /= None /\ r.match_score /= None
                  /\ \E i \in 1..Len(r.candidates) : r.candidates[i] = r.best_match[1]
            /\ IsSuccessful(r) <=> (r.error = None)

\* C27 witness: find_match returned the second of two candidates, picked by the
\* LLM, after the comments were fetched
C27_Witness ==
    /\ fm.pc = "done" /\ fm.result[1].error = None
    /\ Len(fm.result[1].candidates) = 2 /\ fm.commentLog /= <<>>
    /\ fm.result[1].best_match = Some(fm.result[1].candidates[2])

\* find_match is done and, inside it, the LLM call or the parsing of its
\* response failed: find_best_match handed back a fallback score or let the
\* exception out
LlmFailedInFindMatch ==
    /\ fm.pc = "done" /\ fm.llmCalls = 1 /\ fm.candidates /= <<>>
    /\ \/ fm.thrown /= None
       \/ /\ fm.result[1].match_score /= None
          /\ fm.result[1].match_score[1].reasoning
                \in {"Error in LLM matching", "Failed to parse LLM response"}

\* C28: when the LLM call or the parsing fails on a non-empty candidate list,
\* find_match returns a result with no error whose best_match is the first
\* candidate at confidence 0.3; is_successful() is true for it and the runner
\* counts it among the successful matches.
C28_LlmFailureCountsAsSuccess ==
    LlmFailedInFindMatch =>
        LET r == fm.result[1]
        IN  /\ r.error = None
            /\ r.best_match = Some(fm.candidates[1])
            /\ r.match_score /= None
            /\ r.match_score[1].confidence = FallbackConfidence
            /\ IsSuccessful(r)
            /\ SuccessfulMatches(<<Recorded(0, 1, r)>>) = 1

\* C30: the runner exits with status 0 only when every movie of the list went
\* through process_movie; a run stopped earlier, by the keys running out or by
\* a KeyboardInterrupt, exits with another status.
C30_ExitZeroOnlyWhenAllProcessed ==
    (pc = "exited" /\ exit_code = Some(0)) =>
        movie > NumMovies /\ movies_processed = NumMovies

\* C26: with NumKeys keys the runner always comes to its end; unless it was
\* interrupted it ends with every movie done or with all keys exhausted.  At
\* most NumKeys quota exceptions are handled and at most NumKeys - 1 linkers
\* are rebuilt, and a track index that is attempted again is attempted with a
\* later key, so at most NumKeys times.
C26_RunnerTerminates ==
    /\ <>(pc = "exited")
    /\ [](/\ current_key_index <= NumKeys /\ linker <= NumKeys - 1
          /\ (pc = "exited" /\ ~interrupted) =>
                \/ movie > NumMovies /\ ~quota_exceeded
                \/ quota_exceeded /\ current_key_index = NumKeys)
    /\ [][ (pc = "loop" /\ pc' = "find_match" /\ lastCall /= None
            /\ lastCall[1].idx = lastCall'[1].idx) =>
              /\ lastCall[1].quota
              /\ lastCall[1].key < lastCall'[1].key
              /\ lastCall'[1].key <= NumKeys - 1 ]_vars

\* C26 witness: the run ended with all keys exhausted after the same track
\* index was attempted with every key
C26_Witness ==
    /\ pc = "exited" /\ quota_exceeded /\ ~interrupted
    /\ current_key_index = NumKeys /\ linker = NumKeys - 1
    /\ lastCall /= None /\ lastCall[1].quota /\ lastCall[1].key = NumKeys - 1
    /\ movies_processed < NumMovies

\* the comment API answered a get_video_comments call of the find_match in
\* progress with HTTP 403
CommentFetchForbidden ==
    /\ pc = "find_match"
    /\ \E i \in 1..Len(fm.commentLog) : fm.commentLog[i].outcome = "http403"

\* C29: a 403 on a comment fetch leaves the candidate in the list, without
\* comments; find_match goes on to the LLM and its result does not read as a
\* quota error, so the runner appends it, raises no QuotaExceededException
\* and keeps the key index and the linker it has.
C29_Comment403NoRotation ==
    [][ CommentFetchForbidden =>
          /\ fm.pc \in {"judge", "done"}
          /\ Len(fm.candidates) = Len(fm.commentLog)
          /\ \A i \in 1..Len(fm.commentLog) :
                fm.commentLog[i].outcome = "http403" =>
                    fm.candidates[i] =
                        [video_id |-> fm.commentLog[i].video_id, comments |-> 0]
          /\ current_key_index' = current_key_index /\ linker' = linker
          /\ qe' = None /\ linker = current_key_index
          /\ (fm.pc = "done" /\ pc' /= "summary") =>
                /\ ~QuotaDetected(fm.result[1])
                /\ pc' = "loop" /\ idx' = idx + 1
                /\ results' = AppendResult(results, idx, tracks[idx + 1], fm.result[1])
      ]_vars

\* C29 witness: on the second key, find_match is done for a candidate whose
\* comment fetch got a 403; the result has that candidate as its best_match
C29_Witness ==
    /\ CommentFetchForbidden /\ fm.pc = "done" /\ current_key_index = 1
    /\ fm.result[1].error = None
    /\ fm.result[1].best_match = Some([video_id |-> 1, comments |-> 0])

\* C24: is_successful() is True exactly for a MusicLinkResult that has a
\* best_match and whose error is None.
C24_SuccessfulIffMatchAndNoError ==
    probe.pc = "asked" =>
        LET present == Len(probe.result.best_match) = 1
            absent == Len(probe.result.error) = 0
        IN  probe.is_successful = Some(present /\ absent)

\* C24 witness: is_successful() was asked of a result that has a best_match
\* and the error text "", and said False
C24_Witness ==
    /\ probe.pc = "asked" /\ probe.result.best_match /= None
    /\ probe.result.error = Some("") /\ probe.is_successful = Some(FALSE)

\* C21: find_matches_batch collects one result for every future it
\* submitted, whatever max_workers is and in whatever order the workers
\* finish: no future is collected twice, the result collected for a future is
\* the one its own find_match returned for its own soundtrack, failed or not,
\* and the list returned has as many results as there were soundtracks.
C21_BatchOneResultPerRecord ==
    LET n == Len(batch.soundtracks)
        rs == batch.results
    IN  /\ Running(batch) <= batch.max_workers
        /\ \A k \in 1..Len(rs) :
              /\ rs[k].task \in 1..n
              /\ batch.task[rs[k].task] = "collected"
              /\ rs[k].result = Kept(batch.outcome[rs[k].task][1])
              /\ rs[k].result.soundtrack = batch.soundtracks[rs[k].task]
              /\ \A l \in 1..Len(rs) : rs[l].task = rs[k].task => l = k
        /\ \A i \in 1..n :
              batch.task[i] = "collected" => \E k \in 1..Len(rs) : rs[k].task = i
        /\ batch.pc = "returned" => Len(rs) = n

\* C21 witness: the same record was given twice to two workers; the second
\* future failed and was collected first, the first one has a match
C21_Witness ==
    /\ batch.pc = "returned" /\ batch.max_workers = 2
    /\ Len(batch.soundtracks) = 2 /\ batch.soundtracks[1] = batch.soundtracks[2]
    /\ Len(batch.results) = 2
    /\ batch.results[1].task = 2 /\ batch.results[1].result.error /= None
    /\ batch.results[2].task = 1 /\ batch.results[2].result.matched

====
